---------------------------- MODULE Spec2Model ----------------------------
(***************************************************************************)
(* A model of the neuroforge retrieval pipeline: the sentence-aware        *)
(* chunker and the VectorStore of src/vector_store.py, and the QueryEngine *)
(* and its command line of src/query.py.                                   *)
(*                                                                         *)
(* A Python str is a sequence of tokens.  A token is either one whitespace *)
(* character (SP) or a maximal run of non-whitespace characters, kept as a *)
(* TLA+ string; Len of a token is its number of characters.  len, strip,   *)
(* split, join and lower are computed on that representation.              *)
(***************************************************************************)
EXTENDS Integers, Sequences, FiniteSets, TLC

VARIABLES
    \* ---- VectorStore.chunk_text: arguments, locals, position ----
    sentences,                 \* sent_tokenize(text)
    chunk_size,
    overlap_sentences,
    i,                         \* number of sentences the for loop has consumed
    chunks,
    current_chunk_sentences,
    current_word_count,
    cpc,                       \* "loop" | "tail" | "done"
    chunk_idx,                 \* history: for each chunk, the positions of its sentences
    current_idx,               \* history: the positions of current_chunk_sentences
    \* ---- one call of _extract_texts(doc), as line 114 makes it ----
    json_doc,                  \* the argument: doc of line 114
    extracted,                 \* the value returned: doc_texts of line 114
    xpc,                       \* "call" | "done"
    \* ---- the running process and its object ----
    proc,                      \* "store" | "query" | "interactive" | "none"
    texts,                     \* VectorStore: self.texts
    metadata,                  \* VectorStore: self.metadata
    index,                     \* VectorStore: self.index
    qe_index,                  \* QueryEngine: self.index
    qe_metadata,               \* QueryEngine: self.metadata
    \* ---- the working directory ----
    index_file,                \* faiss_index
    metadata_file,             \* metadata.pkl
    last                       \* history: the last call or step, and how it went

chunkVars == <<sentences, chunk_size, overlap_sentences, i, chunks,
               current_chunk_sentences, current_word_count, cpc,
               chunk_idx, current_idx>>

extractVars == <<json_doc, extracted, xpc>>

storeVars == <<texts, metadata, index>>

queryVars == <<qe_index, qe_metadata>>

diskVars == <<index_file, metadata_file>>

vars == <<chunkVars, extractVars, proc, storeVars, queryVars, diskVars, last>>

-----------------------------------------------------------------------------
(* Bounds of the model *)

MaxSentences == 4
MaxWords == 3
MaxChunkSize == 7
MaxOverlap == 3
MaxChunks == 2
MaxFiles == 2
SmallChunkSize == 3
MaxTopK == 4
MaxItems == 2

-----------------------------------------------------------------------------
(* Python str and list primitives *)

SP == " "

IsSpace(tok) == tok = SP

Max(a, b) == IF a >= b THEN a ELSE b

Min(a, b) == IF a <= b THEN a ELSE b

NotSpace(tok) == ~IsSpace(tok)

\* str.split(): the maximal runs of non-whitespace, in order
Split(s) == SelectSeq(s, NotSpace)

\* " ".join(list)
RECURSIVE Join(_)
Join(list) ==
    IF list = <<>> THEN <<>>
    ELSE IF Len(list) = 1 THEN list[1]
    ELSE list[1] \o <<SP>> \o Join(Tail(list))

\* list[-k:] for k >= 0.  Python reads -0 as 0, so list[-0:] is the whole list.
LastSlice(list, k) ==
    IF k = 0 THEN list
    ELSE SubSeq(list, Max(1, Len(list) - k + 1), Len(list))

-----------------------------------------------------------------------------
(* VectorStore.chunk_text *)

\* A variant of line 56 that flushes as soon as the budget is reached (>=).
MustFlushAtBudget(cur, count, sentence, size) ==
    count + Len(Split(sentence)) >= size /\ cur # <<>>

\* The condition of line 56.
MustFlush(cur, count, sentence, size) ==
    count + Len(Split(sentence)) > size /\ cur # <<>>

\* A variant of line 61 that carries nothing over.
CarryNothing(cur, overlap) == <<>>

\* A variant of line 61 that carries the leading sentences, list[:k].
CarryLeading(cur, overlap) == SubSeq(cur, 1, Min(overlap, Len(cur)))

\* Lines 61-62: what the next chunk starts with, and its recomputed word count.
Carry(cur, overlap) == LastSlice(cur, overlap)

CarryCount(cur, overlap) == Len(Split(Join(Carry(cur, overlap))))

\* Lines 53-65 on the locals st = [chunks, cur, count]: one sentence consumed.
ChunkStep(st, sentence, size, overlap) ==
    LET sentence_word_count == Len(Split(sentence))
        flush == MustFlush(st.cur, st.count, sentence, size)
        kept == IF flush THEN Carry(st.cur, overlap) ELSE st.cur
        keptCount == IF flush THEN CarryCount(st.cur, overlap) ELSE st.count
    IN [chunks |-> IF flush THEN Append(st.chunks, Join(st.cur)) ELSE st.chunks,
        cur    |-> Append(kept, sentence),
        count  |-> keptCount + sentence_word_count]

\* Lines 67-71: the last remaining chunk, and the value returned.
ChunkFinish(st) ==
    IF st.cur # <<>> THEN Append(st.chunks, Join(st.cur)) ELSE st.chunks

\* One iteration of the for loop of lines 52-65.
ChunkLoop ==
    /\ cpc = "loop"
    /\ i < Len(sentences)
    /\ LET sentence == sentences[i + 1]
           flush == MustFlush(current_chunk_sentences, current_word_count,
                              sentence, chunk_size)
           st == ChunkStep([chunks |-> chunks, cur |-> current_chunk_sentences,
                            count |-> current_word_count],
                           sentence, chunk_size, overlap_sentences)
       IN /\ chunks' = st.chunks
          /\ current_chunk_sentences' = st.cur
          /\ current_word_count' = st.count
          /\ chunk_idx' = IF flush THEN Append(chunk_idx, current_idx) ELSE chunk_idx
          /\ current_idx' = Append(IF flush THEN Carry(current_idx, overlap_sentences)
                                   ELSE current_idx, i + 1)
    /\ i' = i + 1
    /\ UNCHANGED <<sentences, chunk_size, overlap_sentences, cpc>>
    /\ UNCHANGED <<extractVars, proc, storeVars, queryVars, diskVars, last>>

\* Lines 67-71: the last remaining chunk, and the return.  An empty text
\* (lines 42-43) has no sentences and returns [] the same way.
ChunkTail ==
    /\ cpc = "loop"
    /\ i = Len(sentences)
    /\ chunks' = ChunkFinish([chunks |-> chunks, cur |-> current_chunk_sentences,
                              count |-> current_word_count])
    /\ chunk_idx' = IF current_chunk_sentences # <<>>
                    THEN Append(chunk_idx, current_idx)
                    ELSE chunk_idx
    /\ cpc' = "done"
    /\ UNCHANGED <<sentences, chunk_size, overlap_sentences, i,
                   current_chunk_sentences, current_word_count, current_idx>>
    /\ UNCHANGED <<extractVars, proc, storeVars, queryVars, diskVars, last>>

-----------------------------------------------------------------------------
(* Program constants *)

DefaultChunkSize == 500

DefaultOverlap == 2

MinTextLen == 40

DefaultTopK == 5

-----------------------------------------------------------------------------
(* More Python str primitives, and the sentence splitter *)

\* len(str): the number of characters
RECURSIVE CharLen(_)
CharLen(s) == IF s = <<>> THEN 0 ELSE Len(s[1]) + CharLen(Tail(s))

\* str.strip(): without its leading and trailing whitespace
Strip(s) ==
    LET ns == {k \in 1..Len(s) : ~IsSpace(s[k])}
    IN IF ns = {} THEN <<>>
       ELSE SubSeq(s, CHOOSE k \in ns : \A m \in ns : k <= m,
                      CHOOSE k \in ns : \A m \in ns : k >= m)

\* The words of the sample texts that end in a full stop.
Terminators == {"fire.", "strengthen.", "engrams.", "everywhere."}

\* nltk's sent_tokenize: a sentence ends after a word that ends in a full stop;
\* the whitespace between two sentences belongs to neither.
RECURSIVE SentScan(_, _)
SentScan(rest, cur) ==
    IF rest = <<>> THEN (IF cur = <<>> THEN <<>> ELSE <<Strip(cur)>>)
    ELSE IF IsSpace(rest[1]) /\ cur = <<>> THEN SentScan(Tail(rest), cur)
    ELSE IF rest[1] \in Terminators
         THEN <<Append(cur, rest[1])>> \o SentScan(Tail(rest), <<>>)
    ELSE SentScan(Tail(rest), Append(cur, rest[1]))

SentTokenize(text) == SentScan(text, <<>>)

\* chunk_text as a function of its arguments (lines 42-71).
RECURSIVE ChunkFold(_, _, _, _)
ChunkFold(st, sents, size, overlap) ==
    IF sents = <<>> THEN st
    ELSE ChunkFold(ChunkStep(st, sents[1], size, overlap), Tail(sents), size, overlap)

ChunkText(text, size, overlap) ==
    IF text = <<>> THEN <<>>
    ELSE ChunkFinish(ChunkFold([chunks |-> <<>>, cur |-> <<>>, count |-> 0],
                               SentTokenize(text), size, overlap))

-----------------------------------------------------------------------------
(* JSON documents: tagged values.  A dict is its (key, value) pairs in      *)
(* document order.                                                          *)

JStr(s) == [t |-> "str", v |-> s]

JNum(n) == [t |-> "num", v |-> n]

JNull == [t |-> "null", v |-> 0]

JBool(b) == [t |-> "bool", v |-> b]

JList(items) == [t |-> "list", v |-> items]

JDict(pairs) == [t |-> "dict", v |-> pairs]

\* dict.get(key): the value under key, or None
DictGet(d, key) ==
    LET hits == {k \in 1..Len(d.v) : d.v[k][1] = key}
    IN IF hits = {} THEN JNull ELSE d.v[CHOOSE k \in hits : TRUE][2]

\* Python truth of a value, as `or` tests it
Truthy(val) ==
    CASE val.t = "null" -> FALSE
      [] val.t = "num" -> val.v # 0
      [] val.t = "bool" -> val.v
      [] OTHER -> val.v # <<>>

\* VectorStore._extract_texts (lines 88-103)
RECURSIVE ExtractTexts(_)
ExtractTexts(obj) ==
    IF obj.t = "dict" THEN
        LET F[k \in 0..Len(obj.v)] ==
                IF k = 0 THEN <<>>
                ELSE LET v == obj.v[k][2]
                     IN F[k - 1] \o
                        (IF v.t = "str"
                         THEN (IF CharLen(Strip(v.v)) >= MinTextLen
                               THEN <<Strip(v.v)>> ELSE <<>>)
                         ELSE ExtractTexts(v))
        IN F[Len(obj.v)]
    ELSE IF obj.t = "list" THEN
        LET G[k \in 0..Len(obj.v)] ==
                IF k = 0 THEN <<>> ELSE G[k - 1] \o ExtractTexts(obj.v[k])
        IN G[Len(obj.v)]
    ELSE <<>>

\* Line 111: the source identifier of a document
UrlOf(doc) ==
    IF Truthy(DictGet(doc, "url")) THEN DictGet(doc, "url").v
    ELSE IF Truthy(DictGet(doc, "source_url")) THEN DictGet(doc, "source_url").v
    ELSE <<"Unknown", SP, "URL">>

\* Lines 120-128: the records one text's chunks add
ChunkRecords(url, cs) ==
    [k \in 1..Len(cs) |->
        [url |-> url, chunk_id |-> k - 1, total_chunks |-> Len(cs),
         text_length |-> CharLen(cs[k]), text |-> cs[k]]]

\* Lines 114-128 for one document: the texts and the records it adds.
RECURSIVE DocYieldOf(_, _, _)
DocYieldOf(url, doc_texts, size) ==
    IF doc_texts = <<>> THEN [texts |-> <<>>, metadata |-> <<>>]
    ELSE LET cs == ChunkText(doc_texts[1], size, DefaultOverlap)
             rest == DocYieldOf(url, Tail(doc_texts), size)
         IN [texts |-> cs \o rest.texts,
             metadata |-> ChunkRecords(url, cs) \o rest.metadata]

DocYield(doc, size) == DocYieldOf(UrlOf(doc), ExtractTexts(doc), size)

-----------------------------------------------------------------------------
(* Sample documents *)

\* 40 characters, one sentence of 4 words
TextEngrams ==
    <<"Hippocampal", SP, "replay", SP, "consolidates", SP, "engrams.">>

\* 43 characters, two sentences of 3 and 2 words
TextCortex ==
    <<"Cortical", SP, "neurons", SP, "fire.", SP, "Synapses", SP, "strengthen.">>

\* 39 characters once stripped, 43 as written
TextPadded ==
    <<SP, SP, "Dendritic", SP, "spines", SP, "reorganise", SP, "everywhere.", SP, SP>>

DocCortex ==
    JDict(<< <<"source_url", JStr(<<"https://y">>)>>,
             <<"title", JStr(<<"Short", SP, "label">>)>>,
             <<"revision", JNum(7)>>,
             <<"sections", JList(<< JDict(<< <<"content", JStr(TextCortex)>> >>),
                                    JStr(TextEngrams),
                                    JNull >>)>> >>)

DocLabels ==
    JDict(<< <<"title", JStr(<<"Short", SP, "label">>)>>,
             <<"note", JStr(TextPadded)>> >>)

DocArray == JList(<< DocCortex >>)

DocNames == {"cortex", "labels", "array"}

Doc(name) ==
    CASE name = "cortex" -> DocCortex
      [] name = "labels" -> DocLabels
      [] name = "array" -> DocArray

IsDict(name) == Doc(name).t = "dict"

\* What each sample document yields at each chunk size used, computed once.
YieldTable ==
    [name \in {n \in DocNames : IsDict(n)} |->
        [size \in {SmallChunkSize, DefaultChunkSize} |-> DocYield(Doc(name), size)]]

\* VectorStore.process_data (lines 105-130) on the documents named.  A document
\* that is no dict has no .get: line 111 raises, with the earlier documents
\* already processed.
RECURSIVE ProcessData(_, _, _)
ProcessData(acc, data, size) ==
    IF data = <<>> THEN acc
    ELSE IF ~IsDict(data[1]) THEN [acc EXCEPT !.raised = TRUE]
    ELSE ProcessData([texts |-> acc.texts \o YieldTable[data[1]][size].texts,
                      metadata |-> acc.metadata \o YieldTable[data[1]][size].metadata,
                      raised |-> FALSE],
                     Tail(data), size)

\* A file the glob matches holds one of the documents, or is no valid JSON.
FileKinds == DocNames \cup {"invalid"}

SeqsUpTo(S, n) == UNION {[1..k -> S] : k \in 0..n}

-----------------------------------------------------------------------------
(* _extract_texts on nested documents *)

\* The values without children: strings of 43, 39 (once stripped) and 11
\* characters, a number, a boolean and null.
JsonLeaves ==
    {JStr(TextCortex), JStr(TextPadded), JStr(<<"Short", SP, "label">>),
     JNum(7), JBool(TRUE), JNull}

\* The keys of an object, in document order.
KeyNames == <<"title", "body", "items", "notes">>

\* The arrays and the objects of at most MaxItems children taken from V.
ListsOver(V) == {JList(items) : items \in SeqsUpTo(V, MaxItems)}

DictsOver(V) ==
    {JDict([j \in 1..Len(items) |-> <<KeyNames[j], items[j]>>]) :
        items \in SeqsUpTo(V, MaxItems)}

\* A child of the document: a leaf, or an array or object of leaves.
InnerValues == JsonLeaves \cup ListsOver(JsonLeaves) \cup DictsOver(JsonLeaves)

\* No call of _extract_texts is being followed.
ExtractIdle ==
    /\ json_doc = JNull
    /\ extracted = <<>>
    /\ xpc = "done"

\* json.load gave a document: an array or an object, two levels deep at most.
ExtractInit ==
    /\ json_doc \in ListsOver(InnerValues) \cup DictsOver(InnerValues)
    /\ extracted = <<>>
    /\ xpc = "call"

\* Line 114: doc_texts = self._extract_texts(doc)
ExtractCall ==
    /\ xpc = "call"
    /\ extracted' = ExtractTexts(json_doc)
    /\ xpc' = "done"
    /\ UNCHANGED <<json_doc, chunkVars, proc, storeVars, queryVars, diskVars, last>>

-----------------------------------------------------------------------------
(* The FAISS index, the files, and the VectorStore operations on them *)

\* An IndexFlatIP.  The vector of a text is stood for by the text it embeds.
NoIndex == [exists |-> FALSE, rows |-> <<>>]

Ntotal(ix) == Len(ix.rows)

NoFile == [state |-> "missing", content |-> <<>>]

CorruptFile == [state |-> "corrupt", content |-> <<>>]

FileOf(content) == [state |-> "ok", content |-> content]

\* The history record of a step; each step fills in the fields it has.
NoStep ==
    [op |-> "none", outcome |-> "none",
     load_failed |-> FALSE, wrote_index |-> FALSE, wrote_metadata |-> FALSE,
     top_k |-> 0, labels |-> <<>>, ntotal |-> 0, nmeta |-> 0, searched |-> FALSE,
     event |-> "none", exception |-> "none", line |-> <<>>, returned |-> <<>>]

\* VectorStore.load_json_files (lines 73-86): a file that fails to load is
\* reported and skipped.  The documents loaded, by name.
RECURSIVE LoadJsonFiles(_)
LoadJsonFiles(files) ==
    IF files = <<>> THEN <<>>
    ELSE IF files[1] = "invalid" THEN LoadJsonFiles(Tail(files))
    ELSE <<files[1]>> \o LoadJsonFiles(Tail(files))

LoadFailed(files) == \E k \in 1..Len(files) : files[k] = "invalid"

\* VectorStore.create_index (lines 132-157).  model.encode may raise.
CreateIndex(txs, ix, encode_ok) ==
    IF txs = <<>> THEN [index |-> ix, error |-> "no_texts"]
    ELSE IF ~encode_ok THEN [index |-> ix, error |-> "embedding"]
    ELSE [index |-> [exists |-> TRUE, rows |-> txs], error |-> "none"]

\* How the two writes of save_index can end.
IOOutcomes ==
    {"ok", "index_open_failed", "index_write_failed",
     "metadata_open_failed", "metadata_dump_failed"}

\* VectorStore.save_index (lines 159-172): faiss.write_index, then open(.., 'wb')
\* and pickle.dump.  A write that fails part-way leaves a file that cannot be read;
\* an open that fails leaves the file as it was.
SaveIndex(ix, md, ixf, mdf, io) ==
    IF ~ix.exists
    THEN [index_file |-> ixf, metadata_file |-> mdf, error |-> "no_index",
          wrote_index |-> FALSE, wrote_metadata |-> FALSE]
    ELSE CASE io = "index_open_failed" ->
                [index_file |-> ixf, metadata_file |-> mdf, error |-> "io",
                 wrote_index |-> FALSE, wrote_metadata |-> FALSE]
           [] io = "index_write_failed" ->
                [index_file |-> CorruptFile, metadata_file |-> mdf, error |-> "io",
                 wrote_index |-> TRUE, wrote_metadata |-> FALSE]
           [] io = "metadata_open_failed" ->
                [index_file |-> FileOf(ix.rows), metadata_file |-> mdf, error |-> "io",
                 wrote_index |-> TRUE, wrote_metadata |-> FALSE]
           [] io = "metadata_dump_failed" ->
                [index_file |-> FileOf(ix.rows), metadata_file |-> CorruptFile,
                 error |-> "io", wrote_index |-> TRUE, wrote_metadata |-> TRUE]
           [] OTHER ->
                [index_file |-> FileOf(ix.rows), metadata_file |-> FileOf(md),
                 error |-> "none", wrote_index |-> TRUE, wrote_metadata |-> TRUE]

\* A process constructs a VectorStore (lines 26-31, 197).  One process runs at
\* a time: the object of the process before it is gone.
NewVectorStore ==
    /\ proc # "interactive"
    /\ proc' = "store"
    /\ texts' = <<>>
    /\ metadata' = <<>>
    /\ index' = NoIndex
    /\ qe_index' = NoIndex
    /\ qe_metadata' = <<>>
    /\ last' = [NoStep EXCEPT !.op = "new_store"]
    /\ UNCHANGED <<diskVars, chunkVars, extractVars>>

\* process_data(data, chunk_size) is called.
ProcessDataCall ==
    /\ proc = "store"
    /\ \E names \in SeqsUpTo(DocNames, MaxFiles),
          size \in {SmallChunkSize, DefaultChunkSize} :
         LET r == ProcessData([texts |-> texts, metadata |-> metadata, raised |-> FALSE],
                              names, size)
         IN /\ Len(r.texts) <= MaxChunks
            /\ texts' = r.texts
            /\ metadata' = r.metadata
            /\ last' = [NoStep EXCEPT !.op = "process_data",
                                      !.outcome = IF r.raised THEN "attribute" ELSE "none"]
    /\ UNCHANGED <<proc, index, queryVars, diskVars, chunkVars, extractVars>>

\* create_index() is called.
CreateIndexCall ==
    /\ proc = "store"
    /\ \E encode_ok \in BOOLEAN :
         LET r == CreateIndex(texts, index, encode_ok)
         IN /\ index' = r.index
            /\ last' = [NoStep EXCEPT !.op = "create_index", !.outcome = r.error]
    /\ UNCHANGED <<proc, texts, metadata, queryVars, diskVars, chunkVars, extractVars>>

\* save_index() is called.
SaveIndexCall ==
    /\ proc = "store"
    /\ \E io \in IOOutcomes :
         LET r == SaveIndex(index, metadata, index_file, metadata_file, io)
         IN /\ index_file' = r.index_file
            /\ metadata_file' = r.metadata_file
            /\ last' = [NoStep EXCEPT !.op = "save_index", !.outcome = r.error,
                                      !.wrote_index = r.wrote_index,
                                      !.wrote_metadata = r.wrote_metadata]
    /\ UNCHANGED <<proc, storeVars, queryVars, chunkVars, extractVars>>

\* Lines 185-191 of build_from_json_files, once the documents are loaded.
BuildLoaded(base, p) ==
    /\ Len(p.texts) <= MaxChunks
    /\ texts' = p.texts
    /\ metadata' = p.metadata
    /\ IF p.raised
       THEN \* line 185 raised: the build ends there
            /\ last' = [base EXCEPT !.outcome = "attribute"]
            /\ UNCHANGED <<index, diskVars>>
       ELSE \E encode_ok \in BOOLEAN :
              LET c == CreateIndex(p.texts, index, encode_ok)
              IN IF c.error = "embedding"
                 THEN \* line 188 raised
                      /\ last' = [base EXCEPT !.outcome = "embedding"]
                      /\ UNCHANGED <<index, diskVars>>
                 ELSE \E io \in IOOutcomes :
                        LET w == SaveIndex(c.index, p.metadata, index_file,
                                           metadata_file, io)
                        IN /\ index' = c.index
                           /\ index_file' = w.index_file
                           /\ metadata_file' = w.metadata_file
                           /\ last' = [base EXCEPT
                                         !.outcome = IF c.error = "no_texts"
                                                     THEN "no_texts" ELSE w.error,
                                         !.wrote_index = w.wrote_index,
                                         !.wrote_metadata = w.wrote_metadata]

\* VectorStore.build_from_json_files (lines 174-193), the whole pipeline.
BuildCall ==
    /\ proc = "store"
    /\ \E files \in SeqsUpTo(FileKinds, MaxFiles) :
         LET data == LoadJsonFiles(files)
             p == ProcessData([texts |-> texts, metadata |-> metadata, raised |-> FALSE],
                              data, DefaultChunkSize)
             base == [NoStep EXCEPT !.op = "build", !.load_failed = LoadFailed(files)]
         IN IF data = <<>>
            THEN \* lines 180-182: nothing loaded
                 /\ last' = [base EXCEPT !.outcome = "no_files"]
                 /\ UNCHANGED <<storeVars, diskVars>>
            ELSE BuildLoaded(base, p)
    /\ UNCHANGED <<proc, queryVars, chunkVars, extractVars>>

-----------------------------------------------------------------------------
(* QueryEngine and the query.py command line (src/query.py) *)

\* QueryEngine.load_index (lines 22-38).  faiss.read_index raises on a file that
\* is missing or cannot be read, pickle.load likewise; self.index is assigned
\* before the metadata file is opened.
LoadIndex(ix, md, ixf, mdf) ==
    IF ixf.state # "ok"
    THEN [index |-> ix, metadata |-> md, ok |-> FALSE]
    ELSE IF mdf.state # "ok"
    THEN [index |-> [exists |-> TRUE, rows |-> ixf.content], metadata |-> md, ok |-> FALSE]
    ELSE [index |-> [exists |-> TRUE, rows |-> ixf.content],
          metadata |-> mdf.content, ok |-> TRUE]

\* IndexFlatIP.search(query, k), line 58: k labels, the rows by falling score
\* (here: row `first`, then the rows after it, cyclically), and -1 for each of
\* the k - ntotal places no row fills.
FaissSearch(ix, k, first) ==
    [j \in 1..k |-> IF j <= Ntotal(ix) THEN (first + j - 1) % Ntotal(ix) ELSE -1]

\* The test of line 62.
Keeps(idx, md) == idx < Len(md)

\* list[idx] for a Python int: a negative idx counts from the end.
ListIndexOk(list, idx) == -Len(list) <= idx /\ idx < Len(list)

ListAt(list, idx) == IF idx < 0 THEN list[Len(list) + idx + 1] ELSE list[idx + 1]

\* Lines 60-72: the results assembled from the labels, or the IndexError that
\* self.metadata[idx] raises.
RECURSIVE Assemble(_, _, _)
Assemble(labels, pos, md) ==
    IF pos > Len(labels) THEN [results |-> <<>>, error |-> "none"]
    ELSE IF ~Keeps(labels[pos], md) THEN Assemble(labels, pos + 1, md)
    ELSE IF ~ListIndexOk(md, labels[pos]) THEN [results |-> <<>>, error |-> "IndexError"]
    ELSE LET rest == Assemble(labels, pos + 1, md)
             rec == ListAt(md, labels[pos])
         IN IF rest.error # "none" THEN rest
            ELSE [results |-> <<[rank |-> pos, metadata |-> rec, text |-> rec.text]>>
                                  \o rest.results,
                  error |-> "none"]

\* QueryEngine.search (lines 40-72).  model.encode may raise.
Search(ix, md, top_k, first, encode_ok) ==
    IF ~ix.exists THEN [results |-> <<>>, error |-> "none", labels |-> <<>>,
                        searched |-> FALSE]
    ELSE IF ~encode_ok THEN [results |-> <<>>, error |-> "embedding", labels |-> <<>>,
                             searched |-> FALSE]
    ELSE LET labels == FaissSearch(ix, top_k, first)
             r == Assemble(labels, 1, md)
         IN [results |-> r.results, error |-> r.error, labels |-> labels,
             searched |-> TRUE]

\* The history record of a search.
Searched(op, r, ix, md, top_k, line) ==
    [NoStep EXCEPT !.op = op,
                   !.outcome = IF r.error = "none" THEN "returned" ELSE r.error,
                   !.top_k = top_k, !.labels = r.labels,
                   !.ntotal = Ntotal(ix), !.nmeta = Len(md),
                   !.searched = r.searched, !.line = line, !.returned = r.results]

\* The best-matching row of a search: any row of the index.
Firsts(ix) == IF Ntotal(ix) = 0 THEN {0} ELSE 0..(Ntotal(ix) - 1)

\* A process constructs a QueryEngine (lines 16-20).
NewEngine ==
    /\ proc # "interactive"
    /\ proc' = "query"
    /\ qe_index' = NoIndex
    /\ qe_metadata' = <<>>
    /\ texts' = <<>>
    /\ metadata' = <<>>
    /\ index' = NoIndex
    /\ last' = [NoStep EXCEPT !.op = "new_engine"]
    /\ UNCHANGED <<diskVars, chunkVars, extractVars>>

\* load_index() is called.
LoadIndexCall ==
    /\ proc = "query"
    /\ LET r == LoadIndex(qe_index, qe_metadata, index_file, metadata_file)
       IN /\ qe_index' = r.index
          /\ qe_metadata' = r.metadata
          /\ last' = [NoStep EXCEPT !.op = "load_index",
                                    !.outcome = IF r.ok THEN "True" ELSE "False",
                                    !.ntotal = Ntotal(r.index),
                                    !.nmeta = Len(r.metadata)]
    /\ UNCHANGED <<proc, storeVars, diskVars, chunkVars, extractVars>>

\* search(query, top_k) is called.
SearchCall ==
    /\ proc = "query"
    /\ \E top_k \in 1..MaxTopK, first \in Firsts(qe_index), encode_ok \in BOOLEAN :
         LET r == Search(qe_index, qe_metadata, top_k, first, encode_ok)
         IN last' = Searched("search", r, qe_index, qe_metadata, top_k, <<>>)
    /\ UNCHANGED <<proc, storeVars, queryVars, diskVars, chunkVars, extractVars>>

\* str.lower() on the words the sample lines use.
LowerToken(tok) ==
    CASE tok = "EXIT" -> "exit"
      [] tok = "Quit" -> "quit"
      [] tok = "Q" -> "q"
      [] OTHER -> tok

Lower(s) == [k \in 1..Len(s) |-> LowerToken(s[k])]

\* The exit sentinels of line 108.
Sentinels == {<<"quit">>, <<"exit">>, <<"q">>}

\* Lines input() can return.
Lines ==
    {<<"quit">>, <<SP, "EXIT", SP>>, <<"Q">>, <<"Quit", SP, "now">>,
     <<>>, <<SP, SP>>, <<"what", SP, "is", SP, "plasticity">>}

\* What input() does: a line, Ctrl-C, or the end of the input.
Events ==
    {[kind |-> "line", line |-> l] : l \in Lines}
        \cup {[kind |-> "interrupt", line |-> <<>>], [kind |-> "eof", line |-> <<>>]}

\* Lines 118-122: of the exceptions the loop body raises, those that end the loop.
ExceptionEndsAlways(exc) == TRUE

ExceptionEnds(exc) == exc = "KeyboardInterrupt"

\* Lines 106-113: what a line read leads to.
LineReaction(line) ==
    LET query == Strip(line)
    IN IF Lower(query) \in Sentinels THEN "quit"
       ELSE IF query = <<>> THEN "skipped"
       ELSE "search"

\* The process ends: its QueryEngine is gone.
QueryExit ==
    /\ proc' = "none"
    /\ qe_index' = NoIndex
    /\ qe_metadata' = <<>>

\* query.py's main (lines 124-150): usage, or load and then one query, or load
\* and then the interactive loop.
Main ==
    /\ proc # "interactive"
    /\ texts' = <<>>
    /\ metadata' = <<>>
    /\ index' = NoIndex
    /\ \/ \* lines 126-133: no argument
          /\ QueryExit
          /\ last' = [NoStep EXCEPT !.op = "main", !.outcome = "usage"]
       \/ \* lines 139-141: the load fails
          /\ ~LoadIndex(NoIndex, <<>>, index_file, metadata_file).ok
          /\ QueryExit
          /\ last' = [NoStep EXCEPT !.op = "main", !.outcome = "load_failed"]
       \/ \* lines 144-145
          /\ LoadIndex(NoIndex, <<>>, index_file, metadata_file).ok
          /\ proc' = "interactive"
          /\ qe_index' = LoadIndex(NoIndex, <<>>, index_file, metadata_file).index
          /\ qe_metadata' = LoadIndex(NoIndex, <<>>, index_file, metadata_file).metadata
          /\ last' = [NoStep EXCEPT !.op = "main", !.outcome = "interactive",
                                    !.ntotal = Ntotal(qe_index'),
                                    !.nmeta = Len(qe_metadata')]
       \/ \* lines 146-150: one query, top_k left at its default
          /\ LoadIndex(NoIndex, <<>>, index_file, metadata_file).ok
          /\ QueryExit
          /\ LET l == LoadIndex(NoIndex, <<>>, index_file, metadata_file)
             IN \E first \in Firsts(l.index), encode_ok \in BOOLEAN :
                  last' = Searched("main", Search(l.index, l.metadata, DefaultTopK,
                                                  first, encode_ok),
                                   l.index, l.metadata, DefaultTopK, <<>>)
    /\ UNCHANGED <<diskVars, chunkVars, extractVars>>

\* One pass of the loop of interactive_mode (lines 104-122).
InteractiveStep ==
    /\ proc = "interactive"
    /\ \E ev \in Events, first \in Firsts(qe_index), encode_ok \in BOOLEAN,
          sigint \in BOOLEAN :
         LET reaction == IF ev.kind = "line" THEN LineReaction(ev.line) ELSE "none"
             r == Search(qe_index, qe_metadata, DefaultTopK, first, encode_ok)
             \* what the try block raises
             exc == CASE ev.kind = "interrupt" -> "KeyboardInterrupt"
                      [] ev.kind = "eof" -> "EOFError"
                      [] reaction = "search" /\ sigint -> "KeyboardInterrupt"
                      [] reaction = "search" /\ r.error # "none" -> r.error
                      [] OTHER -> "none"
             ends == IF exc # "none" THEN ExceptionEnds(exc) ELSE reaction = "quit"
             step == IF reaction = "search" /\ ~sigint
                     THEN Searched("line", r, qe_index, qe_metadata, DefaultTopK, ev.line)
                     ELSE [NoStep EXCEPT !.op = "line", !.line = ev.line]
         IN /\ last' = [step EXCEPT
                          !.event = ev.kind,
                          !.exception = exc,
                          !.outcome = IF exc # "none"
                                      THEN (IF ends THEN "interrupted" ELSE "error_reported")
                                      ELSE IF reaction = "search" THEN "answered"
                                      ELSE reaction]
            /\ IF ends THEN QueryExit ELSE UNCHANGED <<proc, queryVars>>
    /\ UNCHANGED <<storeVars, diskVars, chunkVars, extractVars>>

StoreInit ==
    /\ proc = "store"
    /\ texts = <<>>
    /\ metadata = <<>>
    /\ index = NoIndex
    /\ qe_index = NoIndex
    /\ qe_metadata = <<>>
    /\ index_file = NoFile
    /\ metadata_file = NoFile
    /\ last = NoStep

-----------------------------------------------------------------------------
(* Inputs of chunk_text *)

WordNames == <<"a", "b", "c", "d", "e", "f", "g", "h", "j", "k", "m", "n">>

\* The sentence at position p with w words: its words name the position.
Sentence(p, w) ==
    [k \in 1..(2 * w - 1) |-> IF k % 2 = 1 THEN WordNames[p] ELSE SP]

SentenceLists ==
    UNION {{[p \in 1..n |-> Sentence(p, wc[p])] : wc \in [1..n -> 1..MaxWords]}
           : n \in 0..MaxSentences}

\* Ten sentences of 120 words each: 1200 words.
ScenarioSentences == [p \in 1..10 |-> Sentence(p, 120)]

ChunkInit ==
    /\ \/ /\ sentences \in SentenceLists
          /\ chunk_size \in 0..MaxChunkSize
          /\ overlap_sentences \in 0..MaxOverlap
       \/ /\ sentences = ScenarioSentences
          /\ chunk_size = 500
          /\ overlap_sentences = 2
    /\ i = 0
    /\ chunks = <<>>
    /\ current_chunk_sentences = <<>>
    /\ current_word_count = 0
    /\ cpc = "loop"
    /\ chunk_idx = <<>>
    /\ current_idx = <<>>
    /\ ExtractIdle
    /\ StoreInit

ChunkNext == ChunkLoop \/ ChunkTail

SpecChunk == ChunkInit /\ [][ChunkNext]_vars

-----------------------------------------------------------------------------
(* The pipeline: the processes that build and query, one at a time *)

\* chunk_text is at rest here: process_data runs it to completion.
ChunkIdle ==
    /\ sentences = <<>>
    /\ chunk_size = DefaultChunkSize
    /\ overlap_sentences = DefaultOverlap
    /\ i = 0
    /\ chunks = <<>>
    /\ current_chunk_sentences = <<>>
    /\ current_word_count = 0
    /\ cpc = "done"
    /\ chunk_idx = <<>>
    /\ current_idx = <<>>

Init == ChunkIdle /\ ExtractIdle /\ StoreInit

Next ==
    \/ NewVectorStore
    \/ ProcessDataCall
    \/ CreateIndexCall
    \/ SaveIndexCall
    \/ BuildCall
    \/ NewEngine
    \/ LoadIndexCall
    \/ SearchCall
    \/ Main
    \/ InteractiveStep

Spec == Init /\ [][Next]_vars

\* _extract_texts alone, on each nested document.
InitExtract == ChunkIdle /\ ExtractInit /\ StoreInit

NextExtract == ExtractCall

SpecExtract == InitExtract /\ [][NextExtract]_vars

-----------------------------------------------------------------------------
(* Properties of chunk_text *)

ChunkDone == cpc = "done"

\* The word count of the whole text, whose sentences are `sentences`.
TotalWords == Len(Split(Join(sentences)))

\* The last k entries of a list, for any k >= 0 (none for k = 0).
Trailing(list, k) == SubSeq(list, Len(list) - Min(k, Len(list)) + 1, Len(list))

Range(f) == {f[x] : x \in DOMAIN f}

\* The chunks are the joins of the sentences the history names.
HistoryFaithful ==
    /\ Len(chunk_idx) = Len(chunks)
    /\ \A c \in 1..Len(chunks) :
          chunks[c] = Join([k \in 1..Len(chunk_idx[c]) |-> sentences[chunk_idx[c][k]]])

\* Chunk c + 1 begins with exactly the last min(k, size of chunk c) sentences
\* of chunk c, and goes on with sentences chunk c does not hold.
OverlapRule(c, k) ==
    LET prev == chunk_idx[c]
        next == chunk_idx[c + 1]
        n == Min(k, Len(prev))
    IN /\ Len(next) > n
       /\ SubSeq(next, 1, n) = Trailing(prev, n)
       /\ \A j \in (n + 1)..Len(next) : next[j] \notin Range(prev)

\* C8: a text of at least one sentence whose total word count is at most
\* chunk_size comes back as exactly one chunk, all its sentences joined by
\* single spaces in order, whatever overlap_sentences is.
C8_ShortTextOneChunk ==
    (ChunkDone /\ sentences # <<>> /\ TotalWords <= chunk_size)
        => chunks = <<Join(sentences)>>

C8_Witness ==
    /\ ChunkDone
    /\ Len(sentences) >= 3
    /\ TotalWords = chunk_size
    /\ overlap_sentences = 0
    /\ chunks = <<Join(sentences)>>

\* C9 (as claimed): for every overlap_sentences >= 0, 0 included, each chunk
\* after the first begins with exactly the last min(overlap_sentences, size of
\* the previous chunk) sentences of the previous chunk, followed only by
\* sentences the previous chunk does not hold.
C9_OverlapCarried ==
    /\ HistoryFaithful
    /\ \A c \in 1..(Len(chunk_idx) - 1) : OverlapRule(c, overlap_sentences)

\* C10 (as claimed): the 1200-word text of ten 120-word sentences, with
\* chunk_size 500 and overlap 2, comes back as exactly 3 chunks.
IsScenario ==
    sentences = ScenarioSentences /\ chunk_size = 500 /\ overlap_sentences = 2

C10_ThreeChunks == (ChunkDone /\ IsScenario) => Len(chunks) = 3

\* C10 (amended): that text comes back as exactly 4 chunks, of sentences
\* 1-4, 3-6, 5-8 and 7-10, each consecutive pair sharing 2 sentences.
C10_FourChunks ==
    (ChunkDone /\ IsScenario) =>
        /\ Len(chunks) = 4
        /\ HistoryFaithful
        /\ chunk_idx = <<<<1, 2, 3, 4>>, <<3, 4, 5, 6>>, <<5, 6, 7, 8>>, <<7, 8, 9, 10>>>>
        /\ \A c \in 1..3 : OverlapRule(c, 2)
        /\ \A c \in 1..4 : Len(Split(chunks[c])) = 480

C10_Witness == ChunkDone /\ IsScenario /\ Len(chunks) = 4

\* The word count of sentence k of the text, and of chunk c.
SentenceWords(k) == Len(Split(sentences[k]))

ChunkWords(c) == Len(Split(chunks[c]))

Oversized(k) == SentenceWords(k) > chunk_size

\* C11 (as claimed): a sentence whose own word count exceeds chunk_size is
\* never split and forms its own chunk: every chunk that contains it contains
\* no other sentence, at every position of the sentence and for every
\* overlap_sentences.
C11_OversizedOwnChunk ==
    ChunkDone =>
        /\ HistoryFaithful
        /\ \A c \in 1..Len(chunk_idx) :
              \A k \in Range(chunk_idx[c]) : Oversized(k) => chunk_idx[c] = <<k>>

\* C14 (as claimed): every chunk returned has a word count of at most
\* chunk_size, except a chunk of exactly one sentence that alone exceeds
\* chunk_size, for every sentence sequence and every overlap_sentences >= 0.
C14_WithinBudget ==
    ChunkDone =>
        \A c \in 1..Len(chunks) :
            \/ ChunkWords(c) <= chunk_size
            \/ Len(chunk_idx[c]) = 1 /\ Oversized(chunk_idx[c][1])

\* Chunk c is a non-empty run of consecutive sentences, in order.
Contiguous(c) ==
    /\ chunk_idx[c] # <<>>
    /\ \A j \in 1..(Len(chunk_idx[c]) - 1) : chunk_idx[c][j + 1] = chunk_idx[c][j] + 1

\* Chunk c holds a sentence that no earlier chunk holds.
HasNewSentence(c) ==
    \E k \in Range(chunk_idx[c]) : \A b \in 1..(c - 1) : k \notin Range(chunk_idx[b])

\* C15: the chunks returned lose nothing and make progress: each chunk is a
\* contiguous run of the input sentences in original order, every input
\* sentence is in at least one chunk, each chunk holds a sentence that no
\* earlier chunk holds, and there are at most as many chunks as sentences.
C15_NoLossAndProgress ==
    ChunkDone =>
        /\ HistoryFaithful
        /\ \A c \in 1..Len(chunk_idx) : Contiguous(c) /\ HasNewSentence(c)
        /\ \A k \in 1..Len(sentences) : \E c \in 1..Len(chunk_idx) : k \in Range(chunk_idx[c])
        /\ Len(chunks) <= Len(sentences)

C15_Witness ==
    /\ ChunkDone
    /\ Len(sentences) = MaxSentences
    /\ Len(chunks) >= 3
    /\ overlap_sentences = 1
    /\ \E c \in 1..Len(chunk_idx) : Len(chunk_idx[c]) >= 2
    /\ \E k \in 1..Len(sentences) : Oversized(k)

-----------------------------------------------------------------------------
(* Properties of the VectorStore, the files and the QueryEngine *)

SaveEnded == last.op \in {"save_index", "build"} /\ last.outcome \in {"none", "io"}

\* load_index would return True on the files as they are.
LoadAccepts == LoadIndex(NoIndex, <<>>, index_file, metadata_file).ok

FilesAligned == Len(metadata_file.content) = Len(index_file.content)

\* C1 (as claimed): the metadata records are as many as the index rows
\* whenever the VectorStore holds an index, and in every pair save_index wrote.
C1_MetadataMatchesIndex ==
    /\ index.exists => Len(metadata) = Ntotal(index)
    /\ (SaveEnded /\ last.outcome = "none") => FilesAligned

\* C2 (as claimed): a search over n >= 1 rows with n aligned records raises
\* nothing and returns min(top_k, n) results: n when top_k > n.
C2_TopKClamped ==
    (last.searched /\ last.ntotal >= 1 /\ last.nmeta = last.ntotal) =>
        /\ last.outcome = "returned"
        /\ Len(last.returned) = Min(last.top_k, last.ntotal)

\* A label that names no record: below 0, or at or past the number of records.
OutOfRange(label, n) == label < 0 \/ label >= n

\* C3 (as claimed): a search whose index returned a row id outside the
\* metadata fails with CorruptIndex.
C3_OutOfRangeFailsHard ==
    (last.searched /\ \E k \in 1..Len(last.labels) : OutOfRange(last.labels[k], last.nmeta))
        => last.outcome = "CorruptIndex"

\* C4 (as claimed): a pair whose record count differs from ntotal is rejected
\* when loaded, and no search runs against one.
C4_MismatchRejected ==
    /\ (last.op = "load_index" /\ last.outcome = "True") => last.nmeta = last.ntotal
    /\ (last.op = "main" /\ last.outcome = "interactive") => last.nmeta = last.ntotal
    /\ last.searched => last.nmeta = last.ntotal

\* C5 (as claimed): a save that fails after it wrote the index file leaves no
\* pair that load_index accepts; here, at the least, no misaligned one.
C5_SaveAllOrNothing ==
    (SaveEnded /\ last.outcome = "io" /\ last.wrote_index)
        => ~(LoadAccepts /\ ~FilesAligned)

\* C6 (as claimed): a build run in which a document failed to load, nothing
\* matched, nothing was extracted or the embedding failed writes no file.
C6_FailedBuildWritesNothing ==
    (last.op = "build"
       /\ (last.load_failed
             \/ last.outcome \in {"no_files", "attribute", "no_texts", "embedding"}))
        => (~last.wrote_index /\ ~last.wrote_metadata)

\* C7: the interactive loop ends only on a line that, trimmed and lower-cased,
\* is quit, exit or q, or on an interrupt; an error raised while a line is
\* read or answered is reported and the loop goes on; an empty line is
\* skipped without a search.
C7_InteractiveLoop ==
    last.op = "line" =>
        /\ proc # "interactive" =>
              \/ last.exception = "KeyboardInterrupt"
              \/ (last.event = "line" /\ Lower(Strip(last.line)) \in {<<"quit">>, <<"exit">>, <<"q">>})
        /\ last.exception \notin {"none", "KeyboardInterrupt"} =>
              (proc = "interactive" /\ last.outcome = "error_reported")
        /\ (last.event = "line" /\ Strip(last.line) = <<>>) =>
              (proc = "interactive" /\ ~last.searched /\ last.outcome = "skipped")

C7_Witness ==
    /\ last.op = "line"
    /\ last.event = "line"
    /\ last.exception = "embedding"
    /\ last.outcome = "error_reported"
    /\ proc = "interactive"

\* C13 (as claimed): the results search returns carry 1-based ranks assigned
\* by result position: the j-th of the m results returned has rank j, so the
\* ranks are exactly 1, 2, ..., m, whatever rows the index search returned.
C13_RanksByPosition ==
    (last.searched /\ last.outcome = "returned") =>
        \A j \in 1..Len(last.returned) : last.returned[j].rank = j

-----------------------------------------------------------------------------
(* Properties of _extract_texts *)

\* The string leaves of a value whose trimmed length is at least 40, trimmed,
\* in depth-first order: object values in key order, array elements in order.
RECURSIVE LongStrings(_)
LongStrings(obj) ==
    IF obj.t = "str"
    THEN (IF CharLen(Strip(obj.v)) >= 40 THEN <<Strip(obj.v)>> ELSE <<>>)
    ELSE IF obj.t \in {"list", "dict"} THEN
        LET child(k) == IF obj.t = "dict" THEN obj.v[k][2] ELSE obj.v[k]
            H[k \in 0..Len(obj.v)] ==
                IF k = 0 THEN <<>> ELSE H[k - 1] \o LongStrings(child(k))
        IN H[Len(obj.v)]
    ELSE <<>>

\* C12 (as claimed): _extract_texts emits every string leaf whose trimmed
\* length is at least 40 exactly once, wherever it occurs (object value or
\* array element, at any depth), discards every shorter string, and emits
\* them in depth-first order.
C12_EveryLongStringEmitted ==
    (xpc = "done" /\ json_doc # JNull) => extracted = LongStrings(json_doc)

=============================================================================
